---- MODULE Spec2Model ----
\* Order / payment / inventory lifecycle of the e-commerce backend:
\*   OrderService   src/services/product.service.js (second half, lines 134-371)
\*   Order model    src/unnamed/part_013 (schema and save / findOneAndUpdate hooks)
\*   Payment model  src/models/Product.js (second half, lines 236-457)
\*   CartService    src/services/cart.service.js, Cart model src/models/Cart.js
\*   PaymentService src/services/payment.service.js
\*
\* The methods of the order and cart services are one step each, except createOrder,
\* which is split at the points where its result depends on the order in which the
\* item tasks of the order's save hook (a Promise.all over the items) read and
\* write the products.  The payment methods that wait for the mock processor or
\* for the refund delay (a timer of 1 to 1.5 seconds between their checks and
\* their writes) are two steps: the calls that wait are held in calls, and other
\* requests are served meanwhile.
\*
\* Abstractions: schema validators (required / enum / min) are not modelled, as no
\* path of the order service runs them on products (validateBeforeSave: false,
\* findByIdAndUpdate) and the payment and order documents are stored with the
\* fields the service passes (amount and type of a payment included, which are
\* no paths of paymentSchema).  The order sync of a payment that has no order
\* reference (the initial payment, created before its order) finds no order and
\* is modelled as changing nothing.  Money is an integer number of hundredths,
\* prices being multiples of PriceUnit so that 50% and 98% of every total are
\* whole numbers.  Products are deleted by ProductService.deleteProduct only, which
\* is a step of MergeSpec alone.
EXTENDS Bags, FiniteSets, Integers, Sequences, TLC

\* ---------------------------------------------------------------- bounds
MaxPayments == 3
MaxQty == 2
MaxNow == 25
InitStock == 3
LowStock == 1
MaxCartStock == 2
MaxCartQty == 2
MaxCalls == 2

\* ---------------------------------------------------------------- program constants
CancelWindowHours == 24
DepositPercent == 50
RefundPercent == 98

\* The price of the cheapest product, in hundredths.
PriceUnit == 100

Products == {"p1", "p2"}
Users == {"u1", "u2"}
\* The users whose role is admin.
Admins == {"u2"}
CartIds == {"c1", "c2"}
\* One order is placed: orders are independent aggregates that meet only in the
\* products' stock.
OrderIds == {1}
None == "none"
TickHours == {24, 25}
OrderStatusEnum == {"processing", "shipped", "delivered", "cancelled", "returned"}

VARIABLES products, carts, orders, payments, now, calls, pc, cur, last

vars == <<products, carts, orders, payments, now, calls, pc, cur, last>>

\* ---------------------------------------------------------------- helpers
PriceOf(p) == IF p = "p1" THEN PriceUnit ELSE 2 * PriceUnit

RECURSIVE SumItems(_)
\* products.reduce((sum, item) => sum + item.price * item.quantity, 0)
SumItems(items) ==
    IF Len(items) = 0 THEN 0
    ELSE Head(items).price * Head(items).quantity + SumItems(Tail(items))

Percent(amount, pct) == (amount * pct) \div 100

\* Items a caller can send directly: product, quantity and unit price.
DirectItems ==
    {[product |-> p, quantity |-> q, price |-> PriceOf(p)] : p \in Products, q \in 1..MaxQty}

\* The item lists a caller sends: no item, or every product at most once.
ItemLists ==
    {items \in UNION {[1..n -> DirectItems] : n \in 0..Cardinality(Products)} :
        \A j, k \in 1..Len(items) : j # k => items[j].product # items[k].product}

\* What createOrder's caller could observe before the call.
Snapshot == [products |-> products, orders |-> Len(orders), payments |-> Len(payments)]

NoSnapshot == [products |-> [p \in Products |-> [stock |-> 0, sold |-> 0, isActive |-> FALSE]],
               orders |-> 0, payments |-> 0]

NoCall == [userId |-> None, products |-> <<>>, cartId |-> None,
           payment |-> 0, tasks |-> <<>>, i |-> 0, pre |-> NoSnapshot]

NoCart == [exists |-> FALSE, userId |-> None, items |-> <<>>]

\* The cart a user has filled before the first order is placed.
InitCart ==
    [exists |-> TRUE, userId |-> "u1",
     items |-> <<[productId |-> "p1", quantity |-> 1, priceAtAddition |-> PriceOf("p1")],
                 [productId |-> "p2", quantity |-> 1, priceAtAddition |-> PriceOf("p2")]>>]

\* The call that was made last and how it ended ("running": not ended yet).
Result(op, result) == [op |-> op, result |-> result]

OrderExists(id) == id \in 1..Len(orders) /\ orders[id].exists

\* ---------------------------------------------------------------- initial state
Init ==
    /\ \E act \in BOOLEAN :
         products = [p \in Products |->
                       [stock |-> IF p = "p1" THEN InitStock ELSE LowStock, sold |-> 0,
                        isActive |-> (p = "p1") \/ act]]
    /\ carts = [c \in CartIds |-> IF c = "c1" THEN InitCart ELSE NoCart]
    /\ orders = <<>>
    /\ payments = <<>>
    /\ now = 0
    /\ calls = EmptyBag
    /\ pc = "idle"
    /\ cur = NoCall
    /\ last = Result("none", "none")

\* ---------------------------------------------------------------- time
Tick(d) ==
    /\ pc = "idle"
    /\ now + d <= MaxNow
    /\ now' = now + d
    /\ UNCHANGED <<products, carts, orders, payments, calls, pc, cur, last>>

\* ---------------------------------------------------------------- createOrder
PaidAmounts == {0, PriceUnit}

\* cart.items.map(...) of createOrder: the first item that is not orderable decides
\* the error; an item is checked for availability, then for stock.
CartItemError(item) ==
    IF ~products[item.productId].isActive THEN "product_not_available"
    ELSE IF products[item.productId].stock < item.quantity THEN "insufficient_stock"
    ELSE "ok"

CartItemsError(items) ==
    LET bad == {k \in 1..Len(items) : CartItemError(items[k]) # "ok"}
    IN  IF bad = {} THEN "ok"
        ELSE CartItemError(items[CHOOSE k \in bad : \A j \in bad : k <= j])

CartProducts(items) ==
    [k \in 1..Len(items) |->
        [product |-> items[k].productId, quantity |-> items[k].quantity,
         price |-> items[k].priceAtAddition]]

\* The products the order is built from, or the error that ends the call first.
ResolveProducts(items, cartId) ==
    LET fromCart == Len(items) = 0 /\ cartId # None
        cart == IF cartId = None THEN NoCart ELSE carts[cartId]
        cartErr == IF ~fromCart THEN "ok"
                   ELSE IF ~cart.exists \/ Len(cart.items) = 0 THEN "cart_not_found"
                   ELSE CartItemsError(cart.items)
        prods == IF fromCart /\ cartErr = "ok" THEN CartProducts(cart.items) ELSE items
    IN  [error |-> IF cartErr # "ok" THEN cartErr
                   ELSE IF Len(prods) = 0 THEN "no_products" ELSE "ok",
         products |-> prods]

InitialPaymentAmount(totalAmount) == Percent(totalAmount, DepositPercent)

\* Payment.create of the initial payment: stored without an order reference.
InitialPayment(userId, totalAmount) ==
    [user |-> userId, order |-> 0, amount |-> InitialPaymentAmount(totalAmount),
     status |-> "paid", type |-> "initial"]

\* NewOrder with a shipping price that the total leaves out.
NewOrderShipping(userId, items, paymentRef) ==
    LET totalAmount == SumItems(items)
        initial == InitialPaymentAmount(totalAmount)
    IN  [exists |-> TRUE, user |-> userId, orderItems |-> items, orderStatus |-> "pending",
         paymentRef |-> paymentRef,
         paymentInfo |-> [status |-> "paid", amount |-> initial, paidAmount |-> initial],
         itemsPrice |-> totalAmount, taxPrice |-> 0, shippingPrice |-> PriceUnit,
         totalPrice |-> totalAmount, paymentDue |-> totalAmount - initial,
         createdAt |-> now]

\* The document Order.create stores (price fields not passed take the schema default).
NewOrder(userId, items, paymentRef) ==
    LET totalAmount == SumItems(items)
        initial == InitialPaymentAmount(totalAmount)
    IN  [exists |-> TRUE, user |-> userId, orderItems |-> items, orderStatus |-> "pending",
         paymentRef |-> paymentRef,
         paymentInfo |-> [status |-> "paid", amount |-> initial, paidAmount |-> initial],
         itemsPrice |-> totalAmount, taxPrice |-> 0, shippingPrice |-> 0,
         totalPrice |-> totalAmount, paymentDue |-> totalAmount - initial,
         createdAt |-> now]

\* What is left of an order document after deleteOne: nothing but its id being used.
DeletedOrder ==
    [exists |-> FALSE, user |-> None, orderItems |-> <<>>, orderStatus |-> None,
     paymentRef |-> 0, paymentInfo |-> [status |-> None, amount |-> 0, paidAmount |-> 0],
     itemsPrice |-> 0, taxPrice |-> 0, shippingPrice |-> 0, totalPrice |-> 0,
     paymentDue |-> 0, createdAt |-> 0]

\* Lines 152-195: resolve the products, compute the amounts, create the payment.
\* The caller's paymentInfo (paidAmount) is not read.
createOrder(userId, items, cartId, paidAmount) ==
    /\ pc = "idle"
    /\ Cardinality({k \in 1..Len(payments) : payments[k].type = "initial"})
         < Cardinality(OrderIds)
    /\ LET r == ResolveProducts(items, cartId)
       IN  IF r.error # "ok"
           THEN /\ last' = Result("createOrder", r.error)
                /\ UNCHANGED <<products, carts, orders, payments, now, calls, pc, cur>>
           ELSE /\ Len(payments) < MaxPayments
                /\ payments' = Append(payments, InitialPayment(userId, SumItems(r.products)))
                /\ cur' = [userId |-> userId, products |-> r.products, cartId |-> cartId,
                           payment |-> Len(payments) + 1,
                           tasks |-> [k \in 1..Len(r.products) |->
                                        [st |-> "read", stock |-> 0, sold |-> 0]],
                           i |-> 0, pre |-> Snapshot]
                /\ pc' = "co_hook"
                /\ last' = Result("createOrder", "running")
                /\ UNCHANGED <<products, carts, orders, now, calls>>

Settled(tasks) == \A k \in 1..Len(tasks) : tasks[k].st \in {"done", "failed"}

Failed(tasks) == \E k \in 1..Len(tasks) : tasks[k].st = "failed"

\* Bookkeeping after a step of an item task of the order's save hook.  The first
\* task that throws rejects the Promise.all and with it Order.create and the call;
\* the other tasks are not cancelled and run to their end.
HookAdvance(tasks) ==
    /\ pc' = IF Settled(tasks) THEN (IF Failed(tasks) THEN "idle" ELSE "co_save")
             ELSE IF Failed(tasks) THEN "co_drain" ELSE "co_hook"
    /\ last' = IF pc = "co_hook" /\ Failed(tasks)
               THEN Result("createOrder", "inventory_error")
               ELSE last
    /\ cur' = IF Settled(tasks) /\ Failed(tasks) THEN NoCall ELSE [cur EXCEPT !.tasks = tasks]

\* part_013 lines 134-137: the task of item k reads its product and checks the stock.
ReduceStockRead(k) ==
    /\ pc \in {"co_hook", "co_drain"}
    /\ k \in 1..Len(cur.tasks)
    /\ cur.tasks[k].st = "read"
    /\ LET item == cur.products[k]
           product == products[item.product]
           task == IF product.stock < item.quantity
                   THEN [st |-> "failed", stock |-> 0, sold |-> 0]
                   ELSE [st |-> "write", stock |-> product.stock - item.quantity,
                         sold |-> product.sold + item.quantity]
       IN  HookAdvance([cur.tasks EXCEPT ![k] = task])
    /\ UNCHANGED <<products, carts, orders, payments, now, calls>>

\* part_013 lines 138-140: the task saves the stock and sold it computed from its read.
ReduceStockWrite(k) ==
    /\ pc \in {"co_hook", "co_drain"}
    /\ k \in 1..Len(cur.tasks)
    /\ cur.tasks[k].st = "write"
    /\ products' = [products EXCEPT ![cur.products[k].product].stock = cur.tasks[k].stock,
                                    ![cur.products[k].product].sold = cur.tasks[k].sold]
    /\ HookAdvance([cur.tasks EXCEPT ![k] = [st |-> "done", stock |-> 0, sold |-> 0]])
    /\ UNCHANGED <<carts, orders, payments, now, calls>>

\* Lines 198-215: the hooks passed, the order document is stored.
OrderCreate ==
    /\ pc = "co_save"
    /\ orders' = Append(orders, NewOrder(cur.userId, cur.products, cur.payment))
    /\ cur' = [cur EXCEPT !.i = 1]
    /\ pc' = "co_loop"
    /\ UNCHANGED <<products, carts, payments, now, calls, last>>

\* IncStock that leaves sold as it is.
IncStockOnly(product, quantity) ==
    [product EXCEPT !.stock = @ - quantity]

\* $inc: { stock: -quantity, sold: quantity }
IncStock(product, quantity) ==
    [product EXCEPT !.stock = @ - quantity, !.sold = @ + quantity]

\* Lines 218-227: one round of the loop over the items.
UpdateStockLoop ==
    /\ pc = "co_loop"
    /\ LET item == cur.products[cur.i]
       IN  IF ~products[item.product].isActive
           THEN /\ last' = Result("createOrder", "product_not_available")
                /\ pc' = "idle"
                /\ cur' = NoCall
                /\ UNCHANGED products
           ELSE /\ products' = [products EXCEPT
                                  ![item.product] = IncStock(@, item.quantity)]
                /\ pc' = IF cur.i = Len(cur.products) THEN "co_link" ELSE "co_loop"
                /\ cur' = [cur EXCEPT !.i = @ + 1]
                /\ UNCHANGED last
    /\ UNCHANGED <<carts, orders, payments, now, calls>>

\* Lines 229-238: link the payment to the order, delete the cart, return the order.
\* payment.save() does not modify the status, so the payment's save hook is idle.
LinkPayment ==
    /\ pc = "co_link"
    /\ payments' = [payments EXCEPT ![cur.payment].order = Len(orders)]
    /\ carts' = IF cur.cartId # None THEN [carts EXCEPT ![cur.cartId] = NoCart] ELSE carts
    /\ last' = Result("createOrder", "ok")
    /\ pc' = "idle"
    /\ cur' = NoCall
    /\ UNCHANGED <<products, orders, now, calls>>

\* ---------------------------------------------------------------- model hooks
\* part_013 lines 157-163, the items one after another.
RECURSIVE RestoreStock(_, _)
RestoreStock(prods, items) ==
    IF Len(items) = 0 THEN prods
    ELSE RestoreStock([prods EXCEPT ![Head(items).product].stock = @ + Head(items).quantity,
                                    ![Head(items).product].sold = @ - Head(items).quantity],
                      Tail(items))

\* OrderPreFindOneAndUpdate that restores the stock on an update to refunded too.
OrderPreFindOneAndUpdateRefunded(prods, order, newStatus) ==
    IF newStatus \in {"cancelled", "refunded"} /\ order.orderStatus # newStatus
    THEN RestoreStock(prods, order.orderItems)
    ELSE prods

\* orderSchema.pre('findOneAndUpdate'): the stock is restored when the update sets
\* orderStatus to cancelled and the stored order is not cancelled yet.
OrderPreFindOneAndUpdate(prods, order, newStatus) ==
    IF newStatus = "cancelled" /\ order.orderStatus # "cancelled"
    THEN RestoreStock(prods, order.orderItems)
    ELSE prods

\* The orderStatus the payment's save hook writes; None stands for undefined
\* (this.orderStatus of a payment), which the update leaves out.
SyncedOrderStatus(status) ==
    IF status = "paid" THEN "processing"
    ELSE IF status = "refunded" THEN "refunded"
    ELSE None

\* paymentSchema.pre('save') of a payment whose status is modified (every new
\* payment): Order.findByIdAndUpdate(payment.order, ...), through the order's
\* findOneAndUpdate hook.  A payment whose order reference names no stored order
\* updates no order.
PaymentPreSave(ords, prods, payment) ==
    IF payment.order \in 1..Len(ords) /\ ords[payment.order].exists
    THEN LET newStatus == SyncedOrderStatus(payment.status)
         IN  [orders |-> [ords EXCEPT
                            ![payment.order].paymentInfo.status = payment.status,
                            ![payment.order].orderStatus =
                                IF newStatus = None THEN @ ELSE newStatus],
              products |-> OrderPreFindOneAndUpdate(prods, ords[payment.order], newStatus)]
    ELSE [orders |-> ords, products |-> prods]

\* orderSchema.pre('save') stock reduction, line 130: it runs for a new document only.
OrderPreSaveRuns(isNew) == isNew

Fail(op, error) ==
    /\ last' = Result(op, error)
    /\ UNCHANGED <<products, carts, orders, payments, now, calls, pc, cur>>

\* ---------------------------------------------------------------- cancelOrder
\* CancelError without the check of the cancellation window.
CancelErrorNoWindow(userId, orderId) ==
    IF ~(OrderExists(orderId) /\ orders[orderId].user = userId) THEN "order_not_found"
    ELSE IF orders[orderId].orderStatus = "cancelled" THEN "already_cancelled"
    ELSE "ok"

\* Lines 243-253: the first check that fails decides the error.
CancelError(userId, orderId) ==
    IF ~(OrderExists(orderId) /\ orders[orderId].user = userId) THEN "order_not_found"
    ELSE IF orders[orderId].orderStatus = "cancelled" THEN "already_cancelled"
    ELSE IF now - orders[orderId].createdAt > CancelWindowHours THEN "window_expired"
    ELSE "ok"

RefundAmount(order) == Percent(order.paymentInfo.amount, RefundPercent)

cancelOrder(userId, orderId) ==
    /\ pc = "idle"
    /\ LET error == CancelError(userId, orderId)
       IN  IF error # "ok" THEN Fail("cancelOrder", error)
           ELSE LET order == orders[orderId]
                    saved == [orders EXCEPT ![orderId].orderStatus = "cancelled"]
                    refund == [user |-> userId, order |-> orderId,
                               amount |-> RefundAmount(order), status |-> "refunded",
                               type |-> "refund"]
                    synced == PaymentPreSave(saved, products, refund)
                IN  /\ Len(payments) < MaxPayments
                    /\ ~OrderPreSaveRuns(FALSE)
                    /\ orders' = synced.orders
                    /\ products' = synced.products
                    /\ payments' = Append(payments, refund)
                    /\ last' = Result("cancelOrder", "ok")
                    /\ UNCHANGED <<carts, now, calls, pc, cur>>

\* ---------------------------------------------------------------- completePayment
\* CompleteError without the check of the balance that is left.
CompleteErrorNoDue(userId, orderId) ==
    IF ~(OrderExists(orderId) /\ orders[orderId].user = userId) THEN "order_not_found"
    ELSE IF orders[orderId].orderStatus # "delivered" THEN "not_delivered"
    ELSE "ok"

\* Lines 275-279: the first check that fails decides the error.
CompleteError(userId, orderId) ==
    IF ~(OrderExists(orderId) /\ orders[orderId].user = userId) THEN "order_not_found"
    ELSE IF orders[orderId].orderStatus # "delivered" THEN "not_delivered"
    ELSE IF orders[orderId].paymentDue = 0 THEN "already_paid"
    ELSE "ok"

completePayment(userId, orderId) ==
    /\ pc = "idle"
    /\ LET error == CompleteError(userId, orderId)
       IN  IF error # "ok" THEN Fail("completePayment", error)
           ELSE LET remaining == orders[orderId].paymentDue
                    saved == [orders EXCEPT ![orderId].paymentDue = 0,
                                            ![orderId].paymentInfo.paidAmount = @ + remaining]
                    final == [user |-> userId, order |-> orderId, amount |-> remaining,
                              status |-> "paid", type |-> "final"]
                    synced == PaymentPreSave(saved, products, final)
                IN  /\ Len(payments) < MaxPayments
                    /\ orders' = synced.orders
                    /\ products' = synced.products
                    /\ payments' = Append(payments, final)
                    /\ last' = Result("completePayment", "ok")
                    /\ UNCHANGED <<carts, now, calls, pc, cur>>

\* ---------------------------------------------------------------- admin operations
updateOrderStatus(orderId, status) ==
    /\ pc = "idle"
    /\ IF ~OrderExists(orderId) THEN Fail("updateOrderStatus", "order_not_found")
       ELSE /\ orders' = [orders EXCEPT ![orderId].orderStatus = status]
            /\ last' = Result("updateOrderStatus", "ok")
            /\ UNCHANGED <<products, carts, payments, now, calls, pc, cur>>

deleteOrder(orderId) ==
    /\ pc = "idle"
    /\ IF ~OrderExists(orderId) THEN Fail("deleteOrder", "order_not_found")
       ELSE /\ orders' = [orders EXCEPT ![orderId] = DeletedOrder]
            /\ last' = Result("deleteOrder", "ok")
            /\ UNCHANGED <<products, carts, payments, now, calls, pc, cur>>

\* ---------------------------------------------------------------- cart service
\* Cart.findOne({ userId }): the user's cart, None when there is none.
UserCart(userId) ==
    LET mine == {c \in CartIds : carts[c].exists /\ carts[c].userId = userId}
    IN  IF mine = {} THEN None ELSE CHOOSE c \in mine : TRUE

\* getOrCreateCart, lines 12-28: the cart the call works on, None when it has to be
\* created (a user without a cart, a session whose cart is gone, no session).
FoundCart(userId, sessionId) ==
    IF userId # None THEN UserCart(userId)
    ELSE IF sessionId # None /\ carts[sessionId].exists THEN sessionId
    ELSE None

\* The id Cart.create gives a new cart.
FreeCartIds == {c \in CartIds : ~carts[c].exists}

NewCartId == CHOOSE c \in FreeCartIds : TRUE

\* The cart Cart.create stores in getOrCreateCart.
EmptyCart(userId) == [exists |-> TRUE, userId |-> userId, items |-> <<>>]

\* The position of the product's item in the cart's items, 0 when it has none
\* (findIndex + 1).
ItemIndex(items, productId) ==
    LET at == {k \in 1..Len(items) : items[k].productId = productId}
    IN  IF at = {} THEN 0 ELSE CHOOSE k \in at : \A j \in at : k <= j

\* CartPreSave without the check of the stock.
CartPreSaveNoStock(items) == "ok"

\* Product.findById finds the product (ProductService.deleteProduct removes it).
ProductExists(p) == p \in DOMAIN products

\* Cart.js lines 65-76: the check of one item in the save hook.
CartItemSaveError(item) ==
    IF ~ProductExists(item.productId) THEN "product_not_found"
    ELSE IF products[item.productId].stock < item.quantity THEN "insufficient_stock"
    ELSE "ok"

\* cartSchema.pre('save'), Cart.js lines 62-82: the items are checked in their
\* order, the first one that fails gives the error of the save.
CartPreSave(items) ==
    LET bad == {k \in 1..Len(items) : CartItemSaveError(items[k]) # "ok"}
    IN  IF bad = {} THEN "ok"
        ELSE CartItemSaveError(items[CHOOSE k \in bad : \A j \in bad : k <= j])

\* AddItemError without the check of the stock.
AddItemErrorNoStock(productId, quantity) ==
    IF quantity <= 0 THEN "invalid"
    ELSE IF ~ProductExists(productId) THEN "product_not_found"
    ELSE "ok"

\* addItemToCart lines 36-47: the checks made before the cart is looked up.
AddItemError(productId, quantity) ==
    IF quantity <= 0 THEN "invalid"
    ELSE IF ~ProductExists(productId) THEN "product_not_found"
    ELSE IF products[productId].stock < quantity THEN "insufficient_stock"
    ELSE "ok"

\* Lines 51-63: the items with the quantity added to the product's item, or with a
\* new item appended.
AddedItems(items, productId, quantity) ==
    LET k == ItemIndex(items, productId)
    IN  IF k > 0 THEN [items EXCEPT ![k].quantity = @ + quantity]
        ELSE Append(items, [productId |-> productId, quantity |-> quantity,
                            priceAtAddition |-> PriceOf(productId)])

\* A call of the cart service that works on the cart getOrCreateCart gives it and
\* saves it with the items newItems(items); the cart getOrCreateCart created
\* stays when a later step of the call throws.
CartItems(userId, sessionId) ==
    LET found == FoundCart(userId, sessionId)
    IN  IF found = None THEN <<>> ELSE carts[found].items

SaveCart(op, userId, sessionId, error, newItems) ==
    LET found == FoundCart(userId, sessionId)
        id == IF found = None THEN NewCartId ELSE found
        cart == IF found = None THEN EmptyCart(userId) ELSE carts[found]
        saved == IF error # "ok" THEN error ELSE CartPreSave(newItems)
    IN  /\ found = None => FreeCartIds # {}
        /\ carts' = [carts EXCEPT ![id] =
                        IF saved = "ok" THEN [cart EXCEPT !.items = newItems]
                        ELSE cart]
        /\ last' = Result(op, saved)
        /\ UNCHANGED <<products, orders, payments, now, calls, pc, cur>>

addItemToCart(userId, sessionId, productId, quantity) ==
    /\ pc = "idle"
    /\ LET error == AddItemError(productId, quantity)
           items == CartItems(userId, sessionId)
       IN  IF error # "ok" THEN Fail("addItemToCart", error)
           ELSE SaveCart("addItemToCart", userId, sessionId, "ok",
                         AddedItems(items, productId, quantity))

\* JavaScript's Math.min on two numbers.
Min(a, b) == IF a <= b THEN a ELSE b

\* Lines 139-144: the item is removed when the clamped quantity is 0, else set to it.
UpdatedItems(items, productId, quantity) ==
    LET k == ItemIndex(items, productId)
        newQuantity == Min(quantity, products[productId].stock)
    IN  IF newQuantity = 0
        THEN [j \in 1..(Len(items) - 1) |-> IF j < k THEN items[j] ELSE items[j + 1]]
        ELSE [items EXCEPT ![k].quantity = newQuantity]

updateCartItemQuantity(userId, sessionId, productId, quantity) ==
    /\ pc = "idle"
    /\ LET items == CartItems(userId, sessionId)
           error == IF ItemIndex(items, productId) = 0 THEN "item_not_found"
                    ELSE IF ~ProductExists(productId) THEN "product_not_found"
                    ELSE "ok"
       IN  IF quantity <= 0 THEN Fail("updateCartItemQuantity", "invalid")
           ELSE SaveCart("updateCartItemQuantity", userId, sessionId, error,
                         IF error = "ok" THEN UpdatedItems(items, productId, quantity)
                         ELSE items)

\* removeItemFromCart, lines 150-160: the items of the other products are kept and
\* the cart is saved, which runs the save hook on them.
RemainingItems(items, productId) ==
    SelectSeq(items, LAMBDA item : item.productId # productId)

removeItemFromCart(userId, sessionId, productId) ==
    /\ pc = "idle"
    /\ SaveCart("removeItemFromCart", userId, sessionId, "ok",
                RemainingItems(CartItems(userId, sessionId), productId))

\* clearCart, lines 162-168: findOneAndUpdate / findByIdAndUpdate set the items
\* of the cart they find to [], run no save hook and create no cart.
clearCart(userId, sessionId) ==
    /\ pc = "idle"
    /\ LET found == FoundCart(userId, sessionId)
       IN  carts' = IF found = None THEN carts
                    ELSE [carts EXCEPT ![found].items = <<>>]
    /\ last' = Result("clearCart", "ok")
    /\ UNCHANGED <<products, orders, payments, now, calls, pc, cur>>

\* Lines 188-196: one guest item is added to the user's item of its product, or
\* pushed when the user has none.
MergeItem(userItems, guestItem) ==
    LET k == ItemIndex(userItems, guestItem.productId)
    IN  IF k > 0 THEN [userItems EXCEPT ![k].quantity = @ + guestItem.quantity]
        ELSE Append(userItems, guestItem)

RECURSIVE MergedItems(_, _)
\* guestCart.items.forEach, lines 187-197.
MergedItems(userItems, guestItems) ==
    IF guestItems = <<>> THEN userItems
    ELSE MergedItems(MergeItem(userItems, Head(guestItems)), Tail(guestItems))

\* mergeCarts, lines 170-208.  Cart.create (no user cart) and userCart.save() both
\* run the save hook on the items; when it throws, the call ends before line 202.
mergeCarts(userId, guestCartId) ==
    /\ pc = "idle"
    /\ IF guestCartId = None THEN Fail("mergeCarts", "no_guest_cart")
       ELSE IF ~carts[guestCartId].exists \/ carts[guestCartId].items = <<>>
       THEN Fail("mergeCarts", "guest_cart_empty")
       ELSE LET user == UserCart(userId)
                guestItems == carts[guestCartId].items
                id == IF user = None THEN NewCartId ELSE user
                newItems == IF user = None THEN guestItems
                            ELSE MergedItems(carts[user].items, guestItems)
                saved == CartPreSave(newItems)
            IN  /\ user = None => FreeCartIds # {}
                /\ carts' = IF saved = "ok"
                             THEN [carts EXCEPT
                                     ![id] = [exists |-> TRUE, userId |-> userId,
                                              items |-> newItems],
                                     ![guestCartId] = NoCart]
                             ELSE carts
                /\ last' = Result("mergeCarts", saved)
                /\ UNCHANGED <<products, orders, payments, now, calls, pc, cur>>

\* OrderLine without the clamp to the stock.
OrderLineRequested(item) ==
    [product |-> item.productId, price |-> item.priceAtAddition,
     quantity |-> item.quantity]

\* Lines 225-235: the line of one cart item whose product was found
\* (priceAtAddition is at least 0.01, so it is the price taken).
OrderLine(item) ==
    [product |-> item.productId, price |-> item.priceAtAddition,
     quantity |-> Min(item.quantity, products[item.productId].stock)]

RECURSIVE OrderLines(_)
\* The loop of lines 221-236: items whose product is not found are skipped.
OrderLines(items) ==
    IF items = <<>> THEN <<>>
    ELSE IF ProductExists(Head(items).productId)
         THEN <<OrderLine(Head(items))>> \o OrderLines(Tail(items))
         ELSE OrderLines(Tail(items))

\* getCartItemsForOrder, lines 211-243; the cart getOrCreateCart created stays.
CartOrderError(items) ==
    IF Len(items) = 0 THEN "cart_empty"
    ELSE IF Len(OrderLines(items)) = 0 THEN "no_valid_items"
    ELSE "ok"

getCartItemsForOrder(userId, sessionId) ==
    /\ pc = "idle"
    /\ LET found == FoundCart(userId, sessionId)
           id == IF found = None THEN NewCartId ELSE found
           cart == IF found = None THEN EmptyCart(userId) ELSE carts[found]
           error == CartOrderError(cart.items)
       IN  /\ found = None => FreeCartIds # {}
           /\ carts' = [carts EXCEPT ![id] = cart]
           /\ last' = [op |-> "getCartItemsForOrder", result |-> error,
                       items |-> IF error = "ok" THEN OrderLines(cart.items) ELSE <<>>]
    /\ UNCHANGED <<products, orders, payments, now, calls, pc, cur>>

\* ProductService.deleteProduct, lines 67-76, called by the seller or an admin.
deleteProduct(p) ==
    /\ pc = "idle"
    /\ ProductExists(p)
    /\ products' = [q \in DOMAIN products \ {p} |-> products[q]]
    /\ last' = Result("deleteProduct", "ok")
    /\ UNCHANGED <<carts, orders, payments, now, calls, pc, cur>>

\* The stock of a product is set by its seller or an admin (ProductService.updateProduct,
\* with validators: stock >= 0).
SetStock(p, stock) ==
    /\ pc = "idle"
    /\ ProductExists(p)
    /\ products[p].stock # stock
    /\ products' = [products EXCEPT ![p].stock = stock]
    /\ last' = Result("updateProduct", "ok")
    /\ UNCHANGED <<carts, orders, payments, now, calls, pc, cur>>

\* The callers of the cart service: a logged-in user (whose session is not looked
\* at), a guest with the id of a cart in the session, a guest without one.
CartCallers ==
    {[userId |-> "u1", sessionId |-> None]}
      \cup {[userId |-> None, sessionId |-> c] : c \in CartIds \cup {None}}

\* The products whose stock changes while the carts are filled.
RestockedProducts == {"p1"}

\* The products that are deleted while carts hold them.
DeletedProducts == {"p2"}

\* The cart ids a session can hold: the controller stores the id of a cart that
\* was created for a guest, which may have been deleted since.
GuestCartIds == {c \in CartIds : carts[c].userId = None}

CartInit ==
    /\ products = [p \in Products |-> [stock |-> MaxCartStock, sold |-> 0, isActive |-> TRUE]]
    /\ carts = [c \in CartIds |-> NoCart]
    /\ orders = <<>>
    /\ payments = <<>>
    /\ now = 0
    /\ calls = EmptyBag
    /\ pc = "idle"
    /\ cur = NoCall
    /\ last = Result("none", "none")

CartNext ==
    \/ \E who \in CartCallers, p \in Products, q \in 0..MaxCartQty :
         addItemToCart(who.userId, who.sessionId, p, q)
    \/ \E who \in CartCallers, p \in Products, q \in 0..MaxCartQty :
         updateCartItemQuantity(who.userId, who.sessionId, p, q)
    \/ \E p \in RestockedProducts, stock \in 0..MaxCartStock : SetStock(p, stock)

CartSpec == CartInit /\ [][CartNext]_vars

\* The carts of a guest and of a user that are filled, emptied, merged at login and
\* read for an order while products are restocked and deleted.
MergeNext ==
    \/ \E who \in CartCallers, p \in Products, q \in 1..MaxCartQty :
         addItemToCart(who.userId, who.sessionId, p, q)
    \/ \E who \in CartCallers, p \in Products :
         removeItemFromCart(who.userId, who.sessionId, p)
    \/ \E who \in CartCallers : clearCart(who.userId, who.sessionId)
    \/ \E g \in GuestCartIds \cup {None} : mergeCarts("u1", g)
    \/ \E who \in CartCallers : getCartItemsForOrder(who.userId, who.sessionId)
    \/ \E p \in RestockedProducts, stock \in 0..MaxCartStock : SetStock(p, stock)
    \/ \E p \in DeletedProducts : deleteProduct(p)

MergeSpec == CartInit /\ [][MergeNext]_vars

\* ---------------------------------------------------------------- payment service
\* A call that waits, and the bag of calls with or without it.
Call(op, id, userId) == [op |-> op, id |-> id, userId |-> userId]

Waiting(call) == call \in BagToSet(calls)

CallStarts(call) ==
    /\ BagCardinality(calls) < MaxCalls
    /\ calls' = calls (+) SetToBag({call})

CallEnds(call) == calls' = calls (-) SetToBag({call})

\* ProcessPaymentError without the check of the order being paid already.
ProcessPaymentErrorNoPaid(orderId, userId) ==
    IF ~OrderExists(orderId) THEN "order_not_found"
    ELSE IF orders[orderId].user # userId THEN "not_authorized"
    ELSE "ok"

\* PaymentService.processPayment, lines 35-48 (the order id and the payment
\* method are given).
ProcessPaymentError(orderId, userId) ==
    IF ~OrderExists(orderId) THEN "order_not_found"
    ELSE IF orders[orderId].user # userId THEN "not_authorized"
    ELSE IF orders[orderId].paymentInfo.status = "paid" THEN "already_paid"
    ELSE "ok"

\* Lines 28-51: the checks, then the call waits for the processor.
processPayment(orderId, userId) ==
    /\ pc = "idle"
    /\ LET error == ProcessPaymentError(orderId, userId)
       IN  IF error # "ok" THEN Fail("processPayment", error)
           ELSE /\ CallStarts(Call("processPayment", orderId, userId))
                /\ last' = Result("processPayment", "waiting")
                /\ UNCHANGED <<products, carts, orders, payments, now, pc, cur>>

\* Lines 51-69: the processor answers (Math.random() > 0.2).  On success the order
\* read at line 35 is saved with a new paymentInfo (id, status, method: amount is
\* left undefined, written 0, and paidAmount takes its default) and orderStatus
\* 'processing'; the order's save hooks do nothing for a stored order.
processPaymentSettles(orderId, userId, success) ==
    /\ pc = "idle"
    /\ Waiting(Call("processPayment", orderId, userId))
    /\ CallEnds(Call("processPayment", orderId, userId))
    /\ ~OrderPreSaveRuns(FALSE)
    /\ orders' = IF success
                 THEN [orders EXCEPT
                         ![orderId].paymentInfo =
                             [status |-> "paid", amount |-> 0, paidAmount |-> 0],
                         ![orderId].orderStatus = "processing"]
                 ELSE orders
    /\ last' = Result("processPayment", IF success THEN "ok" ELSE "payment_failed")
    /\ UNCHANGED <<products, carts, payments, now, pc, cur>>

\* PaymentService.processRefund, lines 96-109.
ProcessRefundError(orderId) ==
    IF ~OrderExists(orderId) THEN "order_not_found"
    ELSE IF orders[orderId].paymentInfo.status # "paid" THEN "not_paid"
    ELSE IF orders[orderId].orderStatus = "refunded" THEN "already_refunded"
    ELSE "ok"

\* Lines 95-112: the checks, then the call waits for the refund delay.
processRefund(orderId) ==
    /\ pc = "idle"
    /\ LET error == ProcessRefundError(orderId)
       IN  IF error # "ok" THEN Fail("processRefund", error)
           ELSE /\ CallStarts(Call("processRefund", orderId, None))
                /\ last' = Result("processRefund", "waiting")
                /\ UNCHANGED <<products, carts, orders, payments, now, pc, cur>>

\* Lines 114-122: the order read at line 96 is saved as refunded.
processRefundEnds(orderId) ==
    /\ pc = "idle"
    /\ Waiting(Call("processRefund", orderId, None))
    /\ CallEnds(Call("processRefund", orderId, None))
    /\ ~OrderPreSaveRuns(FALSE)
    /\ orders' = [orders EXCEPT ![orderId].orderStatus = "refunded",
                                ![orderId].paymentInfo.status = "refunded"]
    /\ last' = Result("processRefund", "ok")
    /\ UNCHANGED <<products, carts, payments, now, pc, cur>>

\* ---------------------------------------------------------------- payment model
\* A payment the model's statics created has paymentDetails (with the amount); the
\* payments of the order service have a type and no paymentDetails.
HasPaymentDetails(payment) == payment.type = None

\* paymentSchema.statics.processPayment, Product.js lines 382-403: the payment is
\* created with status 'processing' (its save hook writes that status to the
\* order), then the call waits; the payment in status 'processing' is the call.
PaymentProcessPayment(orderId) ==
    /\ pc = "idle"
    /\ IF ~OrderExists(orderId) THEN Fail("Payment.processPayment", "order_not_found")
       ELSE LET payment == [user |-> orders[orderId].user, order |-> orderId,
                            amount |-> orders[orderId].totalPrice,
                            status |-> "processing", type |-> None]
                synced == PaymentPreSave(orders, products, payment)
            IN  /\ Len(payments) < MaxPayments
                /\ payments' = Append(payments, payment)
                /\ orders' = synced.orders
                /\ products' = synced.products
                /\ last' = Result("Payment.processPayment", "waiting")
                /\ UNCHANGED <<carts, now, calls, pc, cur>>

\* Lines 405-423: the payment becomes 'paid' or 'failed' and is saved.
PaymentProcessPaymentSettles(k, success) ==
    /\ pc = "idle"
    /\ k \in 1..Len(payments)
    /\ payments[k].status = "processing"
    /\ LET payment == [payments[k] EXCEPT !.status = IF success THEN "paid" ELSE "failed"]
           synced == PaymentPreSave(orders, products, payment)
       IN  /\ payments' = [payments EXCEPT ![k] = payment]
           /\ orders' = synced.orders
           /\ products' = synced.products
    /\ last' = Result("Payment.processPayment", IF success THEN "ok" ELSE "payment_failed")
    /\ UNCHANGED <<carts, now, calls, pc, cur>>

\* PaymentProcessRefundError that lets every stored payment be refunded.
PaymentProcessRefundErrorAnyStatus(paymentId) ==
    IF paymentId \notin 1..Len(payments) THEN "payment_not_found" ELSE "ok"

\* paymentSchema.statics.processRefund, lines 427-440 (the check of line 438 is
\* never reached with status 'refunded').
PaymentProcessRefundError(paymentId) ==
    IF paymentId \notin 1..Len(payments) THEN "payment_not_found"
    ELSE IF payments[paymentId].status # "paid" THEN "not_paid"
    ELSE "ok"

\* Lines 426-443: the checks, then the call waits for the refund delay.
PaymentProcessRefund(paymentId) ==
    /\ pc = "idle"
    /\ LET error == PaymentProcessRefundError(paymentId)
       IN  IF error # "ok" THEN Fail("Payment.processRefund", error)
           ELSE /\ CallStarts(Call("Payment.processRefund", paymentId, None))
                /\ last' = Result("Payment.processRefund", "waiting")
                /\ UNCHANGED <<products, carts, orders, payments, now, pc, cur>>

\* The payment document the call saves at line 452 (the times of the document,
\* updatedAt and refundDetails.processedAt, are not modelled: the clock of the
\* model counts hours, the calls wait for a second).
RefundedPayment(payment) ==
    [refundDetails |-> [amount |-> payment.amount, status |-> "processed"]]
      @@ [payment EXCEPT !.status = "refunded"]

\* Lines 445-453: the payment read at line 427 becomes 'refunded' with its
\* refundDetails and is saved; reading paymentDetails.amount of a payment without
\* paymentDetails throws a TypeError before the save.
PaymentProcessRefundEnds(paymentId) ==
    /\ pc = "idle"
    /\ Waiting(Call("Payment.processRefund", paymentId, None))
    /\ CallEnds(Call("Payment.processRefund", paymentId, None))
    /\ IF ~HasPaymentDetails(payments[paymentId])
       THEN /\ last' = Result("Payment.processRefund", "type_error")
            /\ UNCHANGED <<products, orders, payments>>
       ELSE LET payment == RefundedPayment(payments[paymentId])
                synced == PaymentPreSave(orders, products, payment)
            IN  /\ payments' = [payments EXCEPT ![paymentId] = payment]
                /\ orders' = synced.orders
                /\ products' = synced.products
                /\ last' = Result("Payment.processRefund", "ok")
    /\ UNCHANGED <<carts, now, pc, cur>>

\* ---------------------------------------------------------------- payments of a placed order
\* The items of the order that is paid for.
PlacedItems == <<[product |-> "p1", quantity |-> 1, price |-> PriceOf("p1")]>>

\* The state after createOrder("u1", PlacedItems) has ended, which Spec reaches:
\* the order is stored, its initial payment is linked, and
\* the stock was reduced by the order's save hook and by the service's loop.
PaymentInit ==
    /\ products = [p \in Products |->
                     IF p = "p1"
                     THEN [stock |-> InitStock - 2, sold |-> 2, isActive |-> TRUE]
                     ELSE [stock |-> LowStock, sold |-> 0, isActive |-> TRUE]]
    /\ carts = [c \in CartIds |-> IF c = "c1" THEN InitCart ELSE NoCart]
    /\ now = 0
    /\ orders = <<NewOrder("u1", PlacedItems, 1)>>
    /\ payments = <<[InitialPayment("u1", SumItems(PlacedItems)) EXCEPT !.order = 1]>>
    /\ calls = EmptyBag
    /\ pc = "idle"
    /\ cur = NoCall
    /\ last = Result("createOrder", "ok")

\* The placed order is paid and refunded through the payment service and through
\* the statics of the payment model.
PaymentNext ==
    \/ \E o \in OrderIds, u \in Users : processPayment(o, u)
    \/ \E o \in OrderIds, u \in Users, success \in BOOLEAN :
         processPaymentSettles(o, u, success)
    \/ \E o \in OrderIds : processRefund(o)
    \/ \E o \in OrderIds : processRefundEnds(o)
    \/ \E o \in OrderIds : PaymentProcessPayment(o)
    \/ \E k \in 1..MaxPayments, success \in BOOLEAN : PaymentProcessPaymentSettles(k, success)
    \/ \E k \in 1..MaxPayments : PaymentProcessRefund(k)
    \/ \E k \in 1..MaxPayments : PaymentProcessRefundEnds(k)

PaymentSpec == PaymentInit /\ [][PaymentNext]_vars

\* ---------------------------------------------------------------- specification
Next ==
    \/ \E d \in TickHours : Tick(d)
    \/ \E u \in Users, items \in ItemLists, c \in CartIds \cup {None}, a \in PaidAmounts :
         createOrder(u, items, c, a)
    \/ \E k \in 1..Cardinality(Products) : ReduceStockRead(k)
    \/ \E k \in 1..Cardinality(Products) : ReduceStockWrite(k)
    \/ OrderCreate
    \/ UpdateStockLoop
    \/ LinkPayment
    \/ \E u \in Users, o \in OrderIds : cancelOrder(u, o)
    \/ \E u \in Users, o \in OrderIds : completePayment(u, o)
    \/ \E o \in OrderIds, s \in OrderStatusEnum : updateOrderStatus(o, s)
    \/ \E o \in OrderIds : deleteOrder(o)

Spec == Init /\ [][Next]_vars

\* ---------------------------------------------------------------- claims
RECURSIVE Qty(_, _)
\* The quantity of product p an item list orders.
Qty(items, p) ==
    IF Len(items) = 0 THEN 0
    ELSE (IF Head(items).product = p THEN Head(items).quantity ELSE 0) + Qty(Tail(items), p)

RECURSIVE SumPaid(_, _)
\* The sum of the amounts of the payment records of order o with status paid.
SumPaid(pays, o) ==
    IF Len(pays) = 0 THEN 0
    ELSE (IF Head(pays).order = o /\ Head(pays).status = "paid" THEN Head(pays).amount ELSE 0)
         + SumPaid(Tail(pays), o)

Refunds(o) == {k \in 1..Len(payments) : payments[k].order = o /\ payments[k].type = "refund"}

\* Order o was placed by a createOrder call that returned it: it is stored and its
\* initial payment is linked to it.
Placed(o) ==
    /\ OrderExists(o)
    /\ orders[o].paymentRef \in 1..Len(payments)
    /\ payments[orders[o].paymentRef].order = o

\* The step on which a createOrder call that placed its order returns it.
CreateOrderReturns == pc = "co_link" /\ pc' = "idle"

\* The step after which a createOrder call that failed on an item has no task left.
CreateOrderFailed ==
    /\ pc \in {"co_hook", "co_drain", "co_loop"}
    /\ pc' = "idle"
    /\ last'.result \in {"inventory_error", "product_not_available"}

C4_InsufficientPaymentRejected ==
    [][\A u \in Users, items \in ItemLists, c \in CartIds \cup {None}, a \in PaidAmounts :
         (/\ createOrder(u, items, c, a)
          /\ ResolveProducts(items, c).error = "ok"
          /\ 2 * a < SumItems(ResolveProducts(items, c).products))
         => /\ last'.result = "insufficient_payment"
            /\ UNCHANGED <<orders, payments, products>>]_vars

C6_TotalIsSumOfParts ==
    \A o \in 1..Len(orders) :
        orders[o].exists =>
            orders[o].totalPrice
              = orders[o].itemsPrice + orders[o].taxPrice + orders[o].shippingPrice

C6_Witness ==
    \E o \in 1..Len(orders) :
        /\ orders[o].exists
        /\ orders[o].totalPrice > 0
        /\ orders[o].paymentDue = 0
        /\ last = Result("completePayment", "ok")

\* C7: a successful cancelOrder on a placed order, within 24 hours of its creation,
\* increases the stock and decreases the sold of every product by the quantity the
\* order holds of it.
C7_CancelRestoresStock ==
    [][\A u \in Users, o \in OrderIds :
         (cancelOrder(u, o) /\ Placed(o) /\ CancelError(u, o) = "ok")
         => \A p \in Products :
              /\ products'[p].stock = products[p].stock + Qty(orders[o].orderItems, p)
              /\ products'[p].sold = products[p].sold - Qty(orders[o].orderItems, p)]_vars

\* C8: a successful cancelOrder on a placed order creates exactly one payment
\* record, a refund of 98% of the amount paid on the order so far (initial and
\* final payment).
C8_RefundOfAmountPaid ==
    [][\A u \in Users, o \in OrderIds :
         (cancelOrder(u, o) /\ Placed(o) /\ CancelError(u, o) = "ok")
         => /\ Len(payments') = Len(payments) + 1
            /\ payments'[Len(payments')].type = "refund"
            /\ payments'[Len(payments')].amount
                 = Percent(SumPaid(payments, o), RefundPercent)]_vars

\* The caller's cancelOrder call on its own order o, more than 24 hours after the
\* order was created.
LateCancel(u, o) ==
    /\ cancelOrder(u, o)
    /\ OrderExists(o)
    /\ orders[o].user = u
    /\ now - orders[o].createdAt > CancelWindowHours

\* C9 as stated: cancelOrder more than 24 hours after createdAt fails with the
\* window-expired error and changes no order, product or payment record.
C9_LateCancelExpired ==
    [][\A u \in Users, o \in OrderIds :
         LateCancel(u, o)
         => /\ last'.result = "window_expired"
            /\ UNCHANGED <<orders, products, payments>>]_vars

\* C9 amended: cancelOrder more than 24 hours after createdAt fails and changes no
\* order, product or payment record; the error is window-expired unless the order
\* is already in status cancelled, when it is already-cancelled.
C9_LateCancelFails ==
    [][\A u \in Users, o \in OrderIds :
         LateCancel(u, o)
         => /\ last'.result = IF orders[o].orderStatus = "cancelled"
                              THEN "already_cancelled" ELSE "window_expired"
            /\ UNCHANGED <<orders, products, payments>>]_vars

C9_Witness ==
    /\ last = Result("cancelOrder", "window_expired")
    /\ \E o \in 1..Len(orders) :
         orders[o].exists /\ now - orders[o].createdAt > CancelWindowHours

\* C10: whatever number of cancelOrder calls were made, a placed order has at most
\* one refund payment record.
C10_AtMostOneRefund == \A o \in OrderIds : Placed(o) => Cardinality(Refunds(o)) <= 1

\* The balance of C5 on the orders that were placed.
PlacedOrdersBalance ==
    pc = "idle" =>
        \A o \in OrderIds :
            Placed(o) => orders[o].paymentDue = orders[o].totalPrice - SumPaid(payments, o)

\* C11: when a cancelOrder call on a placed order has succeeded, refund record and
\* its save hook included, the order's orderStatus is cancelled.
C11_CancelledAfterCancel ==
    [][\A u \in Users, o \in OrderIds :
         (cancelOrder(u, o) /\ Placed(o) /\ CancelError(u, o) = "ok")
         => orders'[o].orderStatus = "cancelled"]_vars

\* C12: cancelOrder on a placed order that is within its window and not cancelled
\* succeeds exactly when the caller owns the order or is an admin; a call that does
\* not succeed changes no order, product or payment record.
C12_OwnerOrAdminCancels ==
    [][\A u \in Users, o \in OrderIds :
         (/\ cancelOrder(u, o)
          /\ Placed(o)
          /\ orders[o].orderStatus # "cancelled"
          /\ now - orders[o].createdAt <= CancelWindowHours)
         => IF orders[o].user = u \/ u \in Admins
            THEN last'.result = "ok"
            ELSE /\ last'.result # "ok"
                 /\ UNCHANGED <<orders, products, payments>>]_vars

\* The owner's completePayment call on the stored order o.
OwnerCompletes(u, o) ==
    /\ completePayment(u, o)
    /\ OrderExists(o)
    /\ orders[o].user = u

\* C13 as stated: completePayment on a placed order fails whenever the order is not
\* delivered, and fails with the already-paid error whenever paymentDue is 0; in
\* both cases no order and no payment record changes.
C13_CompleteRejected ==
    [][\A u \in Users, o \in OrderIds :
         (OwnerCompletes(u, o) /\ Placed(o))
         => /\ orders[o].orderStatus # "delivered"
                 => last'.result # "ok" /\ UNCHANGED <<orders, payments>>
            /\ orders[o].paymentDue = 0
                 => last'.result = "already_paid" /\ UNCHANGED <<orders, payments>>]_vars

\* C13 amended: completePayment fails with the not-delivered error whenever the
\* order is not delivered, and with the already-paid error whenever the order is
\* delivered and its paymentDue is 0; in both cases no order and no payment record
\* changes.
C13_CompleteRejectedInOrder ==
    [][\A u \in Users, o \in OrderIds :
         OwnerCompletes(u, o)
         => /\ orders[o].orderStatus # "delivered"
                 => last'.result = "not_delivered" /\ UNCHANGED <<orders, payments>>
            /\ (orders[o].orderStatus = "delivered" /\ orders[o].paymentDue = 0)
                 => last'.result = "already_paid" /\ UNCHANGED <<orders, payments>>]_vars

C13_Witness ==
    /\ last = Result("completePayment", "already_paid")
    /\ \E o \in OrderIds :
         OrderExists(o) /\ orders[o].orderStatus = "delivered" /\ orders[o].paymentDue = 0

\* C14: a successful completePayment on a delivered placed order with paymentDue
\* d > 0 sets paymentDue to 0 and creates exactly one payment record, of status paid
\* and amount d; a completePayment that follows it on the same order fails with the
\* already-paid error and creates no record.
C14_FinalPaymentOnce ==
    [][\A u \in Users, o \in OrderIds :
         (OwnerCompletes(u, o) /\ Placed(o))
         => /\ (orders[o].orderStatus = "delivered" /\ orders[o].paymentDue > 0)
                 => /\ orders'[o].paymentDue = 0
                    /\ Len(payments') = Len(payments) + 1
                    /\ payments'[Len(payments')].order = o
                    /\ payments'[Len(payments')].status = "paid"
                    /\ payments'[Len(payments')].amount = orders[o].paymentDue
            /\ last = Result("completePayment", "ok")
                 => last'.result = "already_paid" /\ UNCHANGED payments]_vars

\* C15: when updateOrderStatus sets a placed order that is not cancelled to
\* cancelled, the stock of every product increases and its sold decreases by the
\* quantity the order holds of it.
C15_AdminCancelRestoresStock ==
    [][\A o \in OrderIds :
         (/\ updateOrderStatus(o, "cancelled")
          /\ Placed(o)
          /\ orders[o].orderStatus # "cancelled")
         => \A p \in Products :
              /\ products'[p].stock = products[p].stock + Qty(orders[o].orderItems, p)
              /\ products'[p].sold = products[p].sold - Qty(orders[o].orderItems, p)]_vars

\* Order o is in a terminal state: cancelled, refunded, or delivered and fully paid.
Terminal(o) ==
    /\ OrderExists(o)
    /\ \/ orders[o].orderStatus \in {"cancelled", "refunded"}
       \/ orders[o].orderStatus = "delivered" /\ orders[o].paymentDue = 0

\* C16: no cancelOrder, completePayment, updateOrderStatus or deleteOrder call on an
\* order that is in a terminal state changes the stock or sold of any product.
C16_TerminalKeepsInventory ==
    [][\A u \in Users, o \in OrderIds, s \in OrderStatusEnum :
         (/\ Terminal(o)
          /\ \/ cancelOrder(u, o)
             \/ completePayment(u, o)
             \/ updateOrderStatus(o, s)
             \/ deleteOrder(o))
         => UNCHANGED products]_vars

\* A cancelOrder call succeeded on an order that was refunded already.
C16_Witness ==
    /\ last = Result("cancelOrder", "ok")
    /\ \E o \in OrderIds : Terminal(o) /\ Cardinality(Refunds(o)) >= 2

\* The HTTP status of the AppError a call of the order service ends with (200 for
\* a call that returns).
StatusCode(result) ==
    CASE result \in {"order_not_found", "cart_not_found"} -> 404
      [] result = "window_expired" -> 403
      [] result = "ok" -> 200
      [] OTHER -> 400

\* C17: the owner's cancelOrder on a placed order whose status is shipped is
\* rejected with a 400 error and the order's status stays shipped.
C17_ShippedNotCancellable ==
    [][\A u \in Users, o \in OrderIds :
         (/\ cancelOrder(u, o)
          /\ Placed(o)
          /\ orders[o].user = u
          /\ orders[o].orderStatus = "shipped")
         => /\ StatusCode(last'.result) = 400
            /\ orders'[o].orderStatus = "shipped"]_vars

\* The cart an addItemToCart or updateCartItemQuantity call of the caller works on.
TargetCart(who) ==
    IF FoundCart(who.userId, who.sessionId) = None THEN NewCartId
    ELSE FoundCart(who.userId, who.sessionId)

\* C18: addItemToCart with a quantity greater than the product's stock fails with
\* the insufficient-stock error and changes no cart: no item, no quantity, and no
\* cart is created.
C18_OverStockAddRejected ==
    [][\A who \in CartCallers, p \in Products, q \in 0..MaxCartQty :
         (/\ addItemToCart(who.userId, who.sessionId, p, q)
          /\ ProductExists(p)
          /\ q > products[p].stock)
         => /\ last'.result = "insufficient_stock"
            /\ UNCHANGED carts]_vars

\* An addItemToCart call failed for the stock while no cart exists.
C18_Witness ==
    /\ last = Result("addItemToCart", "insufficient_stock")
    /\ \A c \in CartIds : ~carts[c].exists

\* C19: addItemToCart of a product that the cart holds already fails and changes no
\* cart if the item's quantity plus the added quantity exceeds the product's stock,
\* and else sets the item's quantity to that sum; after every successful
\* addItemToCart the cart holds the product with a quantity <= the product's stock.
C19_AddSumsWithinStock ==
    [][\A who \in CartCallers, p \in Products, q \in 1..MaxCartQty :
         (addItemToCart(who.userId, who.sessionId, p, q) /\ ProductExists(p))
         => LET c == TargetCart(who)
                found == FoundCart(who.userId, who.sessionId) # None
                k == IF found THEN ItemIndex(carts[c].items, p) ELSE 0
                after == ItemIndex(carts'[c].items, p)
            IN  /\ k > 0 =>
                     IF carts[c].items[k].quantity + q > products[p].stock
                     THEN last'.result # "ok" /\ UNCHANGED carts
                     ELSE last'.result = "ok" =>
                            carts'[c].items[k].quantity = carts[c].items[k].quantity + q
                /\ last'.result = "ok" =>
                     /\ after > 0
                     /\ carts'[c].items[after].quantity <= products[p].stock]_vars

\* An addItemToCart call failed in the save hook: every product's stock covers the
\* largest quantity a call adds, so that the check before the cart's lookup passed.
C19_Witness ==
    /\ last = Result("addItemToCart", "insufficient_stock")
    /\ \A p \in Products : ProductExists(p) /\ products[p].stock >= MaxCartQty
    /\ \E c \in CartIds : carts[c].exists /\ Len(carts[c].items) > 0

\* C20: updateCartItemQuantity on a cart that holds the product removes the item
\* when the quantity is 0 and sets the item's quantity to min(quantity, stock) when
\* it is positive; on a cart that does not hold the product it fails with the
\* not-found error and leaves the caller's cart unchanged.
C20_UpdateQuantity ==
    [][\A who \in CartCallers, p \in Products, q \in 0..MaxCartQty :
         (/\ updateCartItemQuantity(who.userId, who.sessionId, p, q)
          /\ FoundCart(who.userId, who.sessionId) # None)
         => LET c == TargetCart(who)
                k == ItemIndex(carts[c].items, p)
                alone == Len(carts[c].items) = 1
            IN  IF k = 0
                THEN last'.result = "item_not_found" /\ UNCHANGED carts
                ELSE IF q = 0
                THEN ItemIndex(carts'[c].items, p) = 0
                ELSE (alone /\ ProductExists(p) /\ products[p].stock > 0)
                       => carts'[c].items[k].quantity = Min(q, products[p].stock)]_vars


\* C21: removeItemFromCart of a product the caller's cart does not hold succeeds and
\* leaves the cart's items as they are, whatever the stock of their products;
\* clearCart on a cart without items succeeds and changes no cart; and a cart that
\* removeItemFromCart or clearCart has produced is left as it is by the same call
\* made again.
C21_RemoveAndClearIdempotent ==
    [][/\ \A who \in CartCallers, p \in Products :
            removeItemFromCart(who.userId, who.sessionId, p)
            => LET c == TargetCart(who)
                   items == CartItems(who.userId, who.sessionId)
               IN  /\ ItemIndex(items, p) = 0
                        => last'.result = "ok" /\ carts'[c].items = items
                   /\ last'.result = "ok"
                        => RemainingItems(carts'[c].items, p) = carts'[c].items
       /\ \A who \in CartCallers :
            clearCart(who.userId, who.sessionId)
            => /\ last'.result = "ok"
               /\ CartItems(who.userId, who.sessionId) = <<>> => UNCHANGED carts
               /\ FoundCart(who.userId, who.sessionId) # None
                    => carts'[FoundCart(who.userId, who.sessionId)].items = <<>>]_vars


\* The quantity of the product's item in the items, 0 when there is none.
QuantityIn(items, p) ==
    IF ItemIndex(items, p) = 0 THEN 0 ELSE items[ItemIndex(items, p)].quantity

\* The items of the user's cart, none when the user has no cart.
UserItems(userId) ==
    IF UserCart(userId) = None THEN <<>> ELSE carts[UserCart(userId)].items

\* After the call the user's cart holds every product of the guest's cart with the
\* guest's quantity added to the one the user had, and the user's other items as
\* they were.
MergedQuantities(userId, guestCartId) ==
    \A p \in Products :
      (QuantityIn(carts[guestCartId].items, p) + QuantityIn(UserItems(userId), p) > 0)
      => QuantityIn(UserItems(userId)', p)
           = QuantityIn(carts[guestCartId].items, p) + QuantityIn(UserItems(userId), p)

\* C22: after mergeCarts of a guest cart that holds items, the user's cart holds
\* every product of both carts with the sum of the two quantities, every product of
\* the guest's cart alone with the guest's quantity, and every product of the
\* user's cart alone with the quantity it had.
C22_MergeAddsQuantities ==
    [][\A g \in CartIds :
         (mergeCarts("u1", g) /\ carts[g].exists /\ carts[g].items # <<>>)
         => MergedQuantities("u1", g)]_vars

\* The same for the calls that return 'Cart merged successfully'.
MergedCartsAddQuantities ==
    [][\A g \in CartIds :
         (mergeCarts("u1", g) /\ last'.result = "ok")
         => MergedQuantities("u1", g)]_vars


\* C23: every mergeCarts call that names an existing guest cart leaves that cart
\* deleted, also when the guest cart holds no item, when the user has no cart or an
\* empty one, and when the merged quantities exceed the stock.
C23_GuestCartDeleted ==
    [][\A g \in CartIds :
         (mergeCarts("u1", g) /\ carts[g].exists) => ~carts'[g].exists]_vars

\* The same for the calls that return 'Cart merged successfully'.
MergedGuestCartDeleted ==
    [][\A g \in CartIds :
         (mergeCarts("u1", g) /\ last'.result = "ok") => ~carts'[g].exists]_vars


\* C24: getCartItemsForOrder returns one line for every item of the cart whose
\* product exists, in the cart's order, with the quantity min(item quantity, stock
\* of the product); an item whose product was deleted gives no line; the call fails
\* with an empty-cart error when the cart has no items or no line remains.
C24_OrderLinesClamped ==
    [][\A who \in CartCallers :
         getCartItemsForOrder(who.userId, who.sessionId)
         => LET items == CartItems(who.userId, who.sessionId)
                kept == SelectSeq(items, LAMBDA item : ProductExists(item.productId))
            IN  IF kept = <<>>
                THEN last'.result \in {"cart_empty", "no_valid_items"}
                ELSE /\ last'.result = "ok"
                     /\ Len(last'.items) = Len(kept)
                     /\ \A k \in 1..Len(kept) :
                          /\ last'.items[k].product = kept[k].productId
                          /\ last'.items[k].quantity
                               = IF kept[k].quantity <= products[kept[k].productId].stock
                                 THEN kept[k].quantity
                                 ELSE products[kept[k].productId].stock]_vars

\* A cart of two items was read for an order: the product of one item is deleted,
\* the stock of the other's product is below the item's quantity.
C24_Witness ==
    /\ last.op = "getCartItemsForOrder"
    /\ last.result = "ok"
    /\ Len(last.items) = 1
    /\ \E c \in CartIds :
         /\ carts[c].exists
         /\ Len(carts[c].items) = 2
         /\ \E k \in 1..2 : ~ProductExists(carts[c].items[k].productId)
         /\ \E k \in 1..2 : /\ ProductExists(carts[c].items[k].productId)
                            /\ last.items[1].product = carts[c].items[k].productId
                            /\ last.items[1].quantity < carts[c].items[k].quantity


\* The place of a payment status on the way pending, processing, paid, refunded.
StatusRank(status) ==
    CASE status = "pending" -> 0
      [] status = "processing" -> 1
      [] status = "paid" -> 2
      [] status = "refunded" -> 3
      [] OTHER -> -1

C26_RefundOnlyWhenPaid ==
    [][/\ \A k \in 1..MaxPayments :
            (PaymentProcessRefundEnds(k) /\ last'.result = "ok")
            => /\ payments[k].status = "paid"
               /\ payments'[k].status = "refunded"
               /\ payments'[k].refundDetails.amount = payments[k].amount
       /\ \A k \in 1..Len(payments) :
            (PaymentProcessRefund(k) /\ payments[k].status # "paid")
            => last'.result = "not_paid" /\ UNCHANGED <<orders, payments, calls>>
       /\ \A o \in OrderIds :
            processRefundEnds(o)
            => /\ orders[o].paymentInfo.status = "paid"
               /\ orders'[o].paymentInfo.status = "refunded"
       /\ \A o \in OrderIds :
            (processRefund(o) /\ orders[o].paymentInfo.status # "paid")
            => last'.result = "not_paid" /\ UNCHANGED <<orders, payments, calls>>]_vars


C28_DeliveredIffNothingDue ==
    \A o \in OrderIds :
      Placed(o) => (orders[o].orderStatus = "delivered" <=> orders[o].paymentDue = 0)

\* C29: a completePayment call that succeeds on a placed order finds the order
\* delivered and leaves it delivered.
C29_CompleteKeepsDelivered ==
    [][\A u \in Users, o \in OrderIds :
         (completePayment(u, o) /\ Placed(o) /\ last'.result = "ok")
         => /\ orders[o].orderStatus = "delivered"
            /\ orders'[o].orderStatus = "delivered"]_vars

\* C30: no step changes the sum of a product's stock and sold: a step changes the
\* two by opposite amounts or leaves both.
C30_StockPlusSoldKept ==
    [][\A p \in Products :
         products'[p].stock + products'[p].sold = products[p].stock + products[p].sold]_vars

\* A createOrder call has returned its order: the stock of the order's products
\* was reduced and their sold raised, by the save hook and by the service's loop.
C30_Witness ==
    /\ last = Result("createOrder", "ok")
    /\ \E o \in OrderIds :
         /\ Placed(o)
         /\ \A k \in 1..Len(orders[o].orderItems) :
              products[orders[o].orderItems[k].product].sold
                >= 2 * orders[o].orderItems[k].quantity

====
